---- MODULE Spec2Model ----
(***************************************************************************)
(* Model of CephNfsProviderHandler (src/src/ceph_nfs.py): the handler of   *)
(* the ceph-nfs relation of the microceph charm.  One unit of the charm   *)
(* handles connect, reconcile and depart signals of the consumer          *)
(* applications; every signal handling runs to completion.                *)
(*                                                                         *)
(* The state is what the handler reads and writes through its             *)
(* collaborators: the service inventory of the microceph cluster, the     *)
(* ceph-nfs relations and the data published on them, the named keys and  *)
(* the fs volumes.  What the collaborators answer during one handling     *)
(* (leadership, OSD count, peer relation data, which enable/disable calls *)
(* raise, the iteration order of the host set) are inputs of the action.  *)
(* A signal is handled in a hook of its own: `last` records the hook that *)
(* is running, with every collaborator call it made, until the hook ends. *)
(***************************************************************************)
EXTENDS Integers, Sequences, FiniteSets, TLC

VARIABLES
    services,   \* what client.cluster.list_services() returns: a sequence of records
    relations,  \* the applications that have a ceph-nfs relation with this charm
    reldata,    \* relation.data[self.model.app] per application: a set of <<key, value>>
    keys,       \* the named ceph keys that exist
    volumes,    \* the names of the fs volumes that exist
    last        \* the hook that has run: the collaborators' answers and the calls made

vars == <<services, relations, reldata, keys, volumes, last>>

(***************************************************************************)
(* Bounds of the model.                                                    *)
(***************************************************************************)
\* The hosts of the microceph cluster.
NumHosts == 3

\* The hosts of the inventories a single Reconcile is checked on
\* (SpecReconcile).
MaxInventory == 5

\* The hosts of the inventories depart hooks are checked on (SpecDepart).
DepartInventory == 4

\* The hosts of the cluster in SpecRebalance.
RebalanceHosts == 4

\* The hosts of the cluster in SpecRedelivery.
RedeliveryHosts == 2

\* "We're only adding up to 3 nodes in the cluster."
MAX_MEMBERS == 3

HostName(i) == "h" \o ToString(i)
Hosts == {HostName(i) : i \in 1..NumHosts}
\* The consumer applications: relation.app.name.
Apps == {"app1", "app2"}

\* The answers of ceph.get_osd_count() the model draws from.
OsdCounts == {0, 1}
\* last.osd_count holds the answers the hook got: none when the handler did
\* not ask.
NotAsked == <<>>

RECURSIVE Perms(_)
Perms(S) ==
    IF S = {} THEN {<<>>}
    ELSE UNION {{<<x>> \o p : p \in Perms(S \ {x})} : x \in S}

(***************************************************************************)
(* Collaborators.                                                          *)
(***************************************************************************)
\* A record of the inventory; s.get("group_id") of a service without a
\* group id is None, written "".
Service(kind, group_id, location) ==
    [service |-> kind, group_id |-> group_id, location |-> location]

\* The inventory of a cluster of n hosts on which nfs is not enabled yet:
\* one mon service per host.
BaseServices(n) == [i \in 1..n |-> Service("mon", "", HostName(i))]

\* A call of a collaborator, as recorded in last.log: ok is FALSE when the
\* call raised; result is the inventory a list_services call returned.
Call(op, host, arg, addr, ok) ==
    [op |-> op, host |-> host, arg |-> arg, addr |-> addr, ok |-> ok, result |-> <<>>]

ListServices(svcs, cluster_id) ==
    [op |-> "list_services", host |-> "", arg |-> cluster_id, addr |-> "", ok |-> TRUE,
     result |-> svcs]

\* microceph.enable_nfs(candidate, cluster_id, public_addr) that succeeds:
\* the inventory lists an nfs service of the group on the host, after the
\* host's other services.
enable_nfs(svcs, host, cluster_id) ==
    LET at == {i \in 1..Len(svcs) : svcs[i].location = host}
        i == IF at = {} THEN Len(svcs)
             ELSE CHOOSE k \in at : \A j \in at : j <= k
    IN SubSeq(svcs, 1, i) \o <<Service("nfs", cluster_id, host)>>
           \o SubSeq(svcs, i + 1, Len(svcs))

\* microceph.disable_nfs(host, cluster_id) that succeeds.
disable_nfs(svcs, host, cluster_id) ==
    LET Keep(s) == ~(s.service = "nfs" /\ s.location = host /\ s.group_id = cluster_id)
    IN SelectSeq(svcs, Keep)

\* The public address a unit publishes in the peer relation.
PublicAddress(host) == "10.0.0." \o host

\* The peer relation as the handler reads it: absent (get_relation returns
\* None), or the units with the hostname and public address each published.
PeerRelation(present, resolvable) ==
    [present |-> present,
     units |-> {[hostname |-> h, public_address |-> PublicAddress(h)] : h \in resolvable}]

\* What a host that runs no nfs service does in the hook: it resolves and
\* its enable_nfs succeeds, or it does not resolve, or its enable_nfs raises.
HostStatus == {"good", "unresolved", "raises"}

\* The inputs of one hook about the hosts that run no nfs service: the peer
\* relation and the hosts whose enable_nfs raises.  The peer relation is
\* absent, or every host has a status of its own: any number of hosts can
\* be unresolved or raise in one hook.
EnableInputs(hosts) ==
    {[peers |-> PeerRelation(FALSE, {}), failing |-> {}]}
    \cup {[peers |-> PeerRelation(TRUE, {h \in hosts : status[h] # "unresolved"}),
           failing |-> {h \in hosts : status[h] = "raises"}] :
                status \in [hosts -> HostStatus]}

\* The hosts whose disable_nfs raises in one hook: any of the members.
DisableInputs(hosts) == SUBSET hosts

\* The key ceph.get_named_key returns for a client.
NamedKey(client_name) == "key-" \o client_name

FSID == "fsid-0"
MonHosts == "[\"10.0.0.1\"]"

(***************************************************************************)
(* CephNfsProviderHandler.                                                 *)
(***************************************************************************)
_cluster_id(app) == app

\* Fault variant: the address of some unit, whatever its hostname.
_get_public_address_any(rel, hostname) ==
    IF rel.units # {} THEN (CHOOSE u \in rel.units : TRUE).public_address ELSE ""

\* _get_public_address, called with the peer relation present.
_get_public_address(rel, hostname) ==
    IF \E u \in rel.units : u.hostname = hostname
    THEN (CHOOSE u \in rel.units : u.hostname = hostname).public_address
    ELSE ""

IsNfs(s) == s.service = "nfs"

all_nfs_services(svcs) == SelectSeq(svcs, IsNfs)

nfs_services(svcs, cluster_id) ==
    LET InGroup(s) == s.group_id = cluster_id
    IN SelectSeq(all_nfs_services(svcs), InGroup)

\* Fault variant: the capacity check written with > instead of >=.
AlreadySatisfied_gt(nodes_in_cluster) == nodes_in_cluster > MAX_MEMBERS

\* if nodes_in_cluster >= 3: return True
AlreadySatisfied(nodes_in_cluster) == nodes_in_cluster >= MAX_MEMBERS

\* Fault variant: the hosts that already run nfs are not excluded.
exclude_hosts_none(svcs) == {}

exclude_hosts(svcs) ==
    LET nfs == all_nfs_services(svcs) IN {nfs[i].location : i \in 1..Len(nfs)}

all_hosts(svcs) == {svcs[i].location : i \in 1..Len(svcs)}

\* candidates, in the iteration order of the set all_hosts.
candidates(svcs, order) ==
    LET hosts == all_hosts(svcs)
        exclude == exclude_hosts(svcs)
        IsCandidate(h) == h \in hosts /\ h \notin exclude
    IN SelectSeq(order, IsCandidate)

\* Fault variant: the loop does not stop at 3 members.
LoopBreak_never(nodes_in_cluster) == FALSE

\* Fault variant: the loop stops one member late.
LoopBreak_late(nodes_in_cluster) == nodes_in_cluster > MAX_MEMBERS

\* if nodes_in_cluster == 3: break
LoopBreak(nodes_in_cluster) == nodes_in_cluster = MAX_MEMBERS

\* Fault variant: an exception ends the loop over the candidates.
AfterEnableError_abort(rest) == <<>>

\* except Exception: the error is logged and the loop goes on with the
\* candidates that remain.
AfterEnableError(rest) == rest

\* Fault variant: an empty address is not checked for.
Unresolved_never(public_addr) == FALSE

\* Fault variant: the check of the address is inverted.
Unresolved_inverted(public_addr) == public_addr # ""

\* if not public_addr: log a warning and continue
Unresolved(public_addr) == public_addr = ""

\* The for loop of _ensure_nfs_cluster over the candidates that remain;
\* st = [services, nodes, log].
RECURSIVE EnrollLoop(_, _, _, _, _)
EnrollLoop(cands, st, cluster_id, peers, failing) ==
    IF cands = <<>> THEN st
    ELSE
        LET candidate == Head(cands)
            rest == Tail(cands)
        IN  IF ~peers.present
            THEN \* rel is None: rel.units raises inside the try
                 EnrollLoop(AfterEnableError(rest),
                            [st EXCEPT !.log = Append(@,
                                Call("get_public_address", candidate, cluster_id, "", FALSE))],
                            cluster_id, peers, failing)
            ELSE
                LET public_addr == _get_public_address(peers, candidate)
                IN  IF Unresolved(public_addr)
                    THEN EnrollLoop(rest,
                            [st EXCEPT !.log = Append(@,
                                Call("get_public_address", candidate, cluster_id, "", TRUE))],
                            cluster_id, peers, failing)
                    ELSE IF candidate \in failing
                    THEN EnrollLoop(AfterEnableError(rest),
                            [st EXCEPT !.log = Append(@,
                                Call("enable_nfs", candidate, cluster_id, public_addr, FALSE))],
                            cluster_id, peers, failing)
                    ELSE
                        LET st2 == [services |-> enable_nfs(st.services, candidate, cluster_id),
                                    nodes |-> st.nodes + 1,
                                    log |-> Append(st.log,
                                        Call("enable_nfs", candidate, cluster_id, public_addr, TRUE))]
                        IN  IF LoopBreak(st2.nodes) THEN st2
                            ELSE EnrollLoop(rest, st2, cluster_id, peers, failing)

\* Fault variant: a cluster on fewer than 3 nodes counts as a failure.
ReconcileFailed_degraded(nodes_in_cluster) == nodes_in_cluster < MAX_MEMBERS

\* if nodes_in_cluster == 0: return False
ReconcileFailed(nodes_in_cluster) == nodes_in_cluster = 0

\* _ensure_nfs_cluster: [ok, services, nodes, log].
_ensure_nfs_cluster(svcs, cluster_id, order, peers, failing) ==
    LET nodes_in_cluster == Len(nfs_services(svcs, cluster_id))
        listed == <<ListServices(svcs, cluster_id)>>
    IN  IF AlreadySatisfied(nodes_in_cluster)
        THEN [ok |-> TRUE, services |-> svcs, nodes |-> nodes_in_cluster, log |-> listed]
        ELSE
            LET st == EnrollLoop(candidates(svcs, order),
                                 [services |-> svcs, nodes |-> nodes_in_cluster, log |-> listed],
                                 cluster_id, peers, failing)
            IN  [ok |-> ~ReconcileFailed(st.nodes), services |-> st.services,
                 nodes |-> st.nodes, log |-> st.log]

\* _ensure_fs_volume: [volumes, log].
_ensure_fs_volume(vols, volume_name) ==
    IF volume_name \in vols
    THEN [volumes |-> vols, log |-> <<>>]
    ELSE [volumes |-> vols \cup {volume_name},
          log |-> <<Call("create_fs_volume", "", volume_name, "", TRUE)>>]

\* relation_data.update(d)
DictUpdate(data, d) ==
    {p \in data : ~\E q \in d : q[1] = p[1]} \cup d

\* Fault variant: the record lacks the cluster id.
Published_no_cluster_id(app, cluster_id, volume_name, client_name, client_key) ==
    {<<"fsid", FSID>>, <<"mon-hosts", MonHosts>>, <<"keyring", client_key>>,
     <<"volume", volume_name>>, <<"client", client_name>>}

\* The record _service_relation publishes.
Published(app, cluster_id, volume_name, client_name, client_key) ==
    {<<"fsid", FSID>>, <<"mon-hosts", MonHosts>>, <<"keyring", client_key>>,
     <<"volume", volume_name>>, <<"client", client_name>>, <<"cluster-id", cluster_id>>}

\* _service_relation on the relation of app; ctx = [services, reldata, keys,
\* volumes, log]; the result is [ok, ctx].
_service_relation(ctx, app, order, peers, failing) ==
    LET cluster_id == _cluster_id(app)
        e == _ensure_nfs_cluster(ctx.services, cluster_id, order, peers, failing)
    IN  IF ~e.ok
        THEN [ok |-> FALSE,
              ctx |-> [ctx EXCEPT !.services = e.services,
                                  !.reldata[app] = {},
                                  !.log = @ \o e.log]]
        ELSE
            LET volume_name == cluster_id \o "-vol"
                v == _ensure_fs_volume(ctx.volumes, volume_name)
                client_name == "client." \o app
                client_key == NamedKey(client_name)
            IN  [ok |-> TRUE,
                 ctx |-> [services |-> e.services,
                          reldata |-> [ctx.reldata EXCEPT ![app] =
                              DictUpdate(@, Published(app, cluster_id, volume_name,
                                                      client_name, client_key))],
                          keys |-> ctx.keys \cup {client_name},
                          volumes |-> v.volumes,
                          log |-> ctx.log \o e.log \o v.log
                                  \o <<Call("get_named_key", "", client_name, "", TRUE)>>]]

\* Fault variant: the comparison of the group id is inverted.
IsTarget_other_group(s, cluster_id) == s.service = "nfs" /\ s.group_id # cluster_id

\* Fault variant: the group id is not compared.
IsTarget_any_group(s, cluster_id) == s.service = "nfs"

\* The services _remove_nfs_cluster disables.
IsTarget(s, cluster_id) == s.service = "nfs" /\ s.group_id = cluster_id

\* The for loop of _remove_nfs_cluster; st = [services, log, raised].
RECURSIVE RemoveLoop(_, _, _, _)

\* except Exception: the error is logged and raised again.
AfterDisableError(rest, st, cluster_id, failing) == [st EXCEPT !.raised = TRUE]

RemoveLoop(targets, st, cluster_id, failing) ==
    IF targets = <<>> THEN st
    ELSE
        LET host == Head(targets).location
            rest == Tail(targets)
        IN  IF host \in failing
            THEN AfterDisableError(rest,
                    [st EXCEPT !.log = Append(@,
                        Call("disable_nfs", host, cluster_id, "", FALSE))],
                    cluster_id, failing)
            ELSE RemoveLoop(rest,
                    [services |-> disable_nfs(st.services, host, cluster_id),
                     log |-> Append(st.log, Call("disable_nfs", host, cluster_id, "", TRUE)),
                     raised |-> FALSE],
                    cluster_id, failing)

\* _remove_nfs_cluster: [services, log, raised].
_remove_nfs_cluster(svcs, cluster_id, failing) ==
    LET Target(s) == IsTarget(s, cluster_id)
    IN  RemoveLoop(SelectSeq(svcs, Target),
                   [services |-> svcs,
                    log |-> <<ListServices(svcs, cluster_id)>>,
                    raised |-> FALSE],
                   cluster_id, failing)

\* Fault variant: the leadership check is missing.
NotLeaderReturn_missing(is_leader) == FALSE

\* if not self.model.unit.is_leader(): return
NotLeaderReturn(is_leader) == ~is_leader

\* Fault variant: the capacity check is missing.
StorageNotAvailable_missing(osd_count) == FALSE

\* if ceph.get_osd_count() == 0: defer and return
StorageNotAvailable(osd_count) == osd_count = 0

\* Fault variant: the result of _service_relation is not looked at.
DeferOnError_never(ok) == FALSE

\* if not self._service_relation(event.relation): event.defer()
DeferOnError(ok) == ~ok

\* Fault variant: the departing relation is not left out.
other_relations_all(rels, app) == rels

\* Fault variant: no relation is serviced after the teardown.
other_relations_none(rels, app) == {}

\* The relations _on_ceph_nfs_departed services after the teardown.
other_relations(rels, app) == rels \ {app}

\* Whether the exception _remove_nfs_cluster raised leaves _on_ceph_nfs_departed.
TeardownErrorPropagates(raised) == raised

\* for relation in other_relations: self._service_relation(relation)
RECURSIVE Rebalance(_, _, _, _, _)
Rebalance(rels, ctx, order, peers, failing) ==
    IF rels = <<>> THEN ctx
    ELSE Rebalance(Tail(rels),
                   _service_relation(ctx, Head(rels), order, peers, failing).ctx,
                   order, peers, failing)

\* The hosts of the inventory that run no nfs service.
FreeHosts(svcs) == all_hosts(svcs) \ exclude_hosts(svcs)

Members(svcs, app) ==
    LET m == nfs_services(svcs, _cluster_id(app)) IN {m[i].location : i \in 1..Len(m)}

\* What the collaborators answer during one hook, whether the handler asks
\* or not: the OSD count of the storage cluster (ceph.get_osd_count()), the
\* peer relation, and the hosts whose enable_nfs raises.
HookEnv(capacity, peers, failing) ==
    [capacity |-> capacity, peers |-> peers, failing |-> failing]

\* The record of a hook: the signal, the answers it got, the calls it made,
\* whether it called event.defer() and whether it ended in an exception.
Handled(kind, app, is_leader, osd_count, log, deferred, raised, env) ==
    [kind |-> kind, app |-> app, is_leader |-> is_leader, osd_count |-> osd_count,
     log |-> log, deferred |-> deferred, raised |-> raised, env |-> env]

(***************************************************************************)
(* The inputs of a hook.                                                   *)
(***************************************************************************)
\* Whether servicing the relations of apps on the inventory svcs gets to
\* look for candidates; when it does not, the inputs below are not read.
Enrolls(svcs, apps) ==
    \E a \in apps : ~AlreadySatisfied(Len(nfs_services(svcs, _cluster_id(a))))

\* The iteration orders of the set all_hosts, as far as the candidates go.
Orders(svcs, apps) ==
    IF Enrolls(svcs, apps) THEN Perms(FreeHosts(svcs)) ELSE {<<>>}

\* The inputs of a hook that does not read them.
NotRead == [peers |-> PeerRelation(TRUE, {}), failing |-> {}]

\* The peer relation and the hosts whose enable_nfs raises.
Enables(svcs, apps) ==
    IF Enrolls(svcs, apps) THEN EnableInputs(FreeHosts(svcs)) ELSE {NotRead}

\* No hook is running.
NoHook ==
    Handled("none", "", FALSE, NotAsked, <<>>, FALSE, FALSE,
            HookEnv(0, NotRead.peers, NotRead.failing))

(***************************************************************************)
(* The handlers, given what the collaborators answer.                      *)
(***************************************************************************)
\* _on_ceph_nfs_connected for the relation of app, run for the signal kind
\* (_on_ceph_nfs_reconcile passes its event on to it).
_on_ceph_nfs_connected(app, kind, is_leader, env, order) ==
    /\ relations' = relations \cup {app}
    /\ IF NotLeaderReturn(is_leader)
       THEN /\ UNCHANGED <<services, reldata, keys, volumes>>
            /\ last' = Handled(kind, app, is_leader, NotAsked, <<>>, FALSE, FALSE, env)
       ELSE IF StorageNotAvailable(env.capacity)
       THEN /\ UNCHANGED <<services, reldata, keys, volumes>>
            /\ last' = Handled(kind, app, is_leader, <<env.capacity>>, <<>>, TRUE, FALSE, env)
       ELSE LET r == _service_relation(
                        [services |-> services, reldata |-> reldata, keys |-> keys,
                         volumes |-> volumes, log |-> <<>>],
                        app, order, env.peers, env.failing)
            IN  /\ services' = r.ctx.services
                /\ reldata' = r.ctx.reldata
                /\ keys' = r.ctx.keys
                /\ volumes' = r.ctx.volumes
                /\ last' = Handled(kind, app, is_leader, <<env.capacity>>,
                                   r.ctx.log, DeferOnError(r.ok), FALSE, env)

\* _on_ceph_nfs_departed for the relation of app; dfailing are the hosts
\* whose disable_nfs raises and rels the other relations in the order of
\* self.model.relations.  The handler leaves the relation and the data
\* published on it as they are.
_on_ceph_nfs_departed(app, is_leader, env, dfailing, rels, order) ==
    IF NotLeaderReturn(is_leader)
    THEN /\ last' = Handled("depart", app, is_leader, NotAsked, <<>>, FALSE, FALSE, env)
         /\ UNCHANGED <<services, relations, reldata, keys, volumes>>
    ELSE
        LET cluster_id == _cluster_id(app)
            td == _remove_nfs_cluster(services, cluster_id, dfailing)
        IN  IF TeardownErrorPropagates(td.raised)
            THEN /\ services' = td.services
                 /\ last' = Handled("depart", app, is_leader, NotAsked, td.log,
                                    FALSE, TRUE, env)
                 /\ UNCHANGED <<relations, reldata, keys, volumes>>
            ELSE
                LET client_name == "client." \o app
                    ctx0 == [services |-> td.services, reldata |-> reldata,
                             keys |-> keys \ {client_name}, volumes |-> volumes,
                             log |-> Append(td.log,
                                 Call("remove_named_key", "", client_name, "", TRUE))]
                    ctx == Rebalance(rels, ctx0, order, env.peers, env.failing)
                IN  /\ services' = ctx.services
                    /\ reldata' = ctx.reldata
                    /\ keys' = ctx.keys
                    /\ volumes' = ctx.volumes
                    /\ UNCHANGED relations
                    /\ last' = Handled("depart", app, is_leader, NotAsked,
                                       ctx.log, FALSE, FALSE, env)

(***************************************************************************)
(* The state machine.                                                      *)
(***************************************************************************)
Init ==
    /\ \E n \in 0..NumHosts : services = BaseServices(n)
    /\ relations = {}
    /\ reldata = [a \in Apps |-> {}]
    /\ keys = {}
    /\ volumes = {}
    /\ last = NoHook

\* The signals that run _on_ceph_nfs_connected for the relation of app: the
\* connect signal, and the reconcile signal of a relation that exists.
ConnectSignals(app) ==
    {"connect"} \cup (IF app \in relations THEN {"reconcile"} ELSE {})

\* A connect or reconcile signal of the relation of app is handled.
OnCephNfsConnected(app) ==
    /\ last.kind = "none"
    /\ \E kind \in ConnectSignals(app), is_leader \in BOOLEAN, capacity \in OsdCounts :
        IF NotLeaderReturn(is_leader) \/ StorageNotAvailable(capacity)
        THEN _on_ceph_nfs_connected(app, kind, is_leader,
                                    HookEnv(capacity, NotRead.peers, NotRead.failing), <<>>)
        ELSE \E order \in Orders(services, {app}), in \in Enables(services, {app}) :
                _on_ceph_nfs_connected(app, kind, is_leader,
                                       HookEnv(capacity, in.peers, in.failing), order)

\* The depart signal of the relation of app is handled.  The handler does
\* not ask for the OSD count: here the storage cluster has OSDs during a
\* depart hook (SpecRebalance handles depart signals without OSDs as well).
OnCephNfsDeparted(app) ==
    /\ app \in relations
    /\ last.kind = "none"
    /\ \E is_leader \in BOOLEAN, capacity \in OsdCounts \ {0} :
        IF NotLeaderReturn(is_leader)
        THEN _on_ceph_nfs_departed(app, is_leader,
                                   HookEnv(capacity, NotRead.peers, NotRead.failing),
                                   {}, <<>>, <<>>)
        ELSE \E dfailing \in DisableInputs(Members(services, app)) :
            LET td == _remove_nfs_cluster(services, _cluster_id(app), dfailing)
                others == other_relations(relations, app)
            IN  IF TeardownErrorPropagates(td.raised)
                THEN _on_ceph_nfs_departed(app, is_leader,
                                           HookEnv(capacity, NotRead.peers, NotRead.failing),
                                           dfailing, <<>>, <<>>)
                ELSE \E rels \in Perms(others),
                        order \in Orders(td.services, others),
                        in \in Enables(td.services, others) :
                        _on_ceph_nfs_departed(app, is_leader,
                                              HookEnv(capacity, in.peers, in.failing),
                                              dfailing, rels, order)

\* A depart hook whose handler returned: the relation goes after it.
Departing == last.kind = "depart" /\ ~last.raised

\* The hook ends; the next signal is handled in a new hook.  A depart hook
\* that raised is run again later, with the relation still there.
HookDone ==
    /\ last.kind # "none"
    /\ ~Departing
    /\ last' = NoHook
    /\ UNCHANGED <<services, relations, reldata, keys, volumes>>

\* The depart hook has ended and the relation is removed from the model,
\* with the data published on it; the next signal is handled in a new hook.
RelationRemoved ==
    /\ Departing
    /\ relations' = relations \ {last.app}
    /\ reldata' = [reldata EXCEPT ![last.app] = {}]
    /\ last' = NoHook
    /\ UNCHANGED <<services, keys, volumes>>

Next ==
    \/ \E app \in Apps : OnCephNfsConnected(app)
    \/ \E app \in Apps : OnCephNfsDeparted(app)
    \/ HookDone
    \/ RelationRemoved

Spec == Init /\ [][Next]_vars

(***************************************************************************)
(* SpecReconcile: one Reconcile on any inventory, with each host's address *)
(* resolvability and enable_nfs outcome fixed before the hook.             *)
(***************************************************************************)
\* enable_nfs on the hosts HostName(from) .. HostName(to), in turn.
RECURSIVE EnableRange(_, _, _, _)
EnableRange(svcs, from, to, cluster_id) ==
    IF from > to THEN svcs
    ELSE EnableRange(enable_nfs(svcs, HostName(from), cluster_id), from + 1, to, cluster_id)

\* The inventory of n hosts of which the first a run nfs for app1 and the
\* next b for app2.
Inventory(n, a, b) ==
    EnableRange(EnableRange(BaseServices(n), 1, a, _cluster_id("app1")),
                a + 1, a + b, _cluster_id("app2"))

\* The peer relation and the failing hosts that a status per host gives.
StatusEnv(status) ==
    HookEnv(1, PeerRelation(TRUE, {h \in DOMAIN status : status[h] # "unresolved"}),
            {h \in DOMAIN status : status[h] = "raises"})

\* A state after earlier hooks of the leader: the groups that have members
\* have their relation, connection data, key and volume.
ProvisionedInventory(n, a, b) ==
    /\ services = Inventory(n, a, b)
    /\ LET there == {x \in Apps : Len(nfs_services(services, _cluster_id(x))) > 0}
       IN  /\ relations = there
           /\ reldata = [x \in Apps |->
                            IF x \in there
                            THEN Published(x, _cluster_id(x), _cluster_id(x) \o "-vol",
                                           "client." \o x, NamedKey("client." \o x))
                            ELSE {}]
           /\ keys = {"client." \o x : x \in there}
           /\ volumes = {_cluster_id(x) \o "-vol" : x \in there}

\* last holds no hook, and the answers the collaborators give in the hook
\* to come.
InitReconcile ==
    \E n \in 0..MaxInventory, a \in 0..MAX_MEMBERS, b \in 0..MAX_MEMBERS :
        /\ a + b <= n
        /\ ProvisionedInventory(n, a, b)
        /\ \E env \in {StatusEnv(st) : st \in [FreeHosts(services) -> HostStatus]}
                    \cup {HookEnv(1, PeerRelation(FALSE, {}), {})} :
                last = [NoHook EXCEPT !.env = env]

\* The leader handles the connect signal of app1 with the answers fixed in
\* last.env, in any iteration order of the candidates.
ReconcileFixed ==
    /\ last.kind = "none"
    /\ \E order \in Orders(services, {"app1"}) :
            _on_ceph_nfs_connected("app1", "connect", TRUE, last.env, order)

NextReconcile == ReconcileFixed

SpecReconcile == InitReconcile /\ [][NextReconcile]_vars

(***************************************************************************)
(* SpecDepart: depart hooks on any inventory, with any answers of the      *)
(* collaborators, and the removal of the relation that follows each.       *)
(***************************************************************************)
InitDepart ==
    /\ \E n \in 0..DepartInventory, a \in 0..MAX_MEMBERS, b \in 0..MAX_MEMBERS :
        /\ a + b <= n
        /\ ProvisionedInventory(n, a, b)
    /\ last = NoHook

NextDepart ==
    \/ \E app \in Apps : OnCephNfsDeparted(app)
    \/ HookDone
    \/ RelationRemoved

SpecDepart == InitDepart /\ [][NextDepart]_vars

(***************************************************************************)
(* SpecRebalance: three consumer applications; every signal is handled by  *)
(* the leader, every address resolves and no enable_nfs or disable_nfs     *)
(* call raises; the storage cluster has OSDs or not during any hook.       *)
(***************************************************************************)
RebalanceApps == Apps \cup {"app3"}

InitRebalance ==
    /\ \E n \in 0..RebalanceHosts : services = BaseServices(n)
    /\ relations = {}
    /\ reldata = [a \in RebalanceApps |-> {}]
    /\ keys = {}
    /\ volumes = {}
    /\ last = NoHook

\* The peer relation resolves every host and no enable_nfs raises.
AllGood(svcs, capacity) == HookEnv(capacity, PeerRelation(TRUE, all_hosts(svcs)), {})

LeaderConnected(app) ==
    /\ last.kind = "none"
    /\ \E kind \in ConnectSignals(app), capacity \in OsdCounts :
        \E order \in (IF StorageNotAvailable(capacity) THEN {<<>>}
                       ELSE Orders(services, {app})) :
            _on_ceph_nfs_connected(app, kind, TRUE, AllGood(services, capacity), order)

LeaderDeparted(app) ==
    /\ app \in relations
    /\ last.kind = "none"
    /\ \E capacity \in OsdCounts :
        LET td == _remove_nfs_cluster(services, _cluster_id(app), {})
            others == other_relations(relations, app)
        IN  \E rels \in Perms(others), order \in Orders(td.services, others) :
                _on_ceph_nfs_departed(app, TRUE, AllGood(services, capacity),
                                      {}, rels, order)

NextRebalance ==
    \/ \E app \in RebalanceApps : LeaderConnected(app)
    \/ \E app \in RebalanceApps : LeaderDeparted(app)
    \/ HookDone
    \/ RelationRemoved

SpecRebalance == InitRebalance /\ [][NextRebalance]_vars

(***************************************************************************)
(* SpecRedelivery: connect and reconcile signals handled by a unit that    *)
(* stays leader.  An event the handler deferred is emitted again by the    *)
(* framework in the next hook, before anything else, until a handling      *)
(* leaves it undeferred; the redelivery is weakly fair.                    *)
(***************************************************************************)
\* The leader handles the signal kind of the relation of app.
LeaderHandles(app, kind) ==
    \E capacity \in OsdCounts :
        IF StorageNotAvailable(capacity)
        THEN _on_ceph_nfs_connected(app, kind, TRUE,
                                    HookEnv(capacity, NotRead.peers, NotRead.failing), <<>>)
        ELSE \E order \in Orders(services, {app}), in \in Enables(services, {app}) :
                _on_ceph_nfs_connected(app, kind, TRUE,
                                       HookEnv(capacity, in.peers, in.failing), order)

Deliver(app) ==
    /\ last.kind = "none"
    /\ \E kind \in ConnectSignals(app) : LeaderHandles(app, kind)

\* The event the last hook deferred is handled again.
Redeliver ==
    /\ last.kind \in {"connect", "reconcile"}
    /\ last.deferred
    /\ LeaderHandles(last.app, last.kind)

\* The hook ends with nothing deferred.
Consumed ==
    /\ ~last.deferred
    /\ HookDone

NextRedelivery ==
    \/ \E app \in Apps : Deliver(app)
    \/ Redeliver
    \/ Consumed

InitRedelivery ==
    /\ \E n \in 0..RedeliveryHosts : services = BaseServices(n)
    /\ relations = {}
    /\ reldata = [a \in Apps |-> {}]
    /\ keys = {}
    /\ volumes = {}
    /\ last = NoHook

SpecRedelivery == InitRedelivery /\ [][NextRedelivery]_vars /\ WF_vars(Redeliver)

(***************************************************************************)
(* Reading the record of a hook.                                           *)
(***************************************************************************)
Log == last.log

IsConnectHook == last.kind \in {"connect", "reconcile"}
IsDepartHook == last.kind = "depart"

\* The hook went past the leadership and the capacity checks.
Serviced ==
    IsConnectHook /\ last.is_leader /\ last.osd_count # NotAsked /\ last.osd_count[1] > 0

\* The list_services calls of the hook that start a Reconcile: all of them
\* but the one of the teardown, which is the first call of a depart hook.
ReconcileStarts ==
    {i \in DOMAIN Log : Log[i].op = "list_services" /\ (IsDepartHook => i > 1)}

\* The calls made between the list_services call i and the next one.
Segment(i) ==
    {j \in DOMAIN Log : j > i /\ \A m \in (i + 1)..j : Log[m].op # "list_services"}

\* The candidates the Reconcile begun at i went through, and its Enable calls.
LoopEntries(i) ==
    {j \in Segment(i) : Log[j].op \in {"enable_nfs", "get_public_address"}}
EnableCalls(i) == {j \in Segment(i) : Log[j].op = "enable_nfs"}
EnabledOk(i) == {j \in EnableCalls(i) : Log[j].ok}

\* The members the group has in the inventory the call i queried.
CountBefore(i) == Len(nfs_services(Log[i].result, Log[i].arg))

MemberCount(app) == Len(nfs_services(services, _cluster_id(app)))

\* The hosts that run no nfs service in the inventory the call i queried,
\* whose address resolves and whose enable_nfs does not raise in this hook.
GoodHosts(i) ==
    {h \in FreeHosts(Log[i].result) :
        /\ last.env.peers.present
        /\ \E u \in last.env.peers.units : u.hostname = h /\ u.public_address # ""
        /\ h \notin last.env.failing}

Min(a, b) == IF a <= b THEN a ELSE b

\* The complete connection record of the relation of app, key by key.
ConnectionData(app) ==
    {<<"fsid", FSID>>, <<"mon-hosts", MonHosts>>,
     <<"keyring", NamedKey("client." \o app)>>, <<"volume", app \o "-vol">>,
     <<"client", "client." \o app>>, <<"cluster-id", app>>}

Hosts_of(seq) == [i \in DOMAIN seq |-> seq[i].location]

\* The disable_nfs calls of a depart hook, in the order they were made.
IsDisable(c) == c.op = "disable_nfs"
DisableCalls == SelectSeq(Log, IsDisable)
DisableFailed == \E i \in DOMAIN Log : Log[i].op = "disable_nfs" /\ ~Log[i].ok

\* No candidate was skipped and no Enable call raised in the hook.
NoEnrollFault ==
    \A i \in DOMAIN Log :
        /\ Log[i].op = "enable_nfs" => Log[i].ok
        /\ Log[i].op # "get_public_address"

(***************************************************************************)
(* C1.  Exclusivity: in every state reached by connect, reconcile and      *)
(* depart signals, whatever Enable and Disable calls fail, no host runs    *)
(* nfs services of two groups (a host runs at most one nfs service), and   *)
(* every Enable call is made for a host that runs no nfs service of any    *)
(* group in the inventory the Reconcile has just queried.                  *)
(***************************************************************************)
Exclusivity ==
    /\ \A i, j \in DOMAIN services :
        (/\ IsNfs(services[i]) /\ IsNfs(services[j])
         /\ services[i].location = services[j].location) => i = j
    /\ \A i \in ReconcileStarts : \A j \in EnableCalls(i) :
        \A k \in DOMAIN Log[i].result :
            IsNfs(Log[i].result[k]) => Log[i].result[k].location # Log[j].host

\* A hook has enrolled a host into a group while another group had members.
ExclusivityWitness ==
    /\ IsConnectHook
    /\ \E j \in DOMAIN Log : Log[j].op = "enable_nfs" /\ Log[j].ok
    /\ \E k \in DOMAIN Log[1].result :
        IsNfs(Log[1].result[k]) /\ Log[1].result[k].group_id # Log[1].arg
    /\ FreeHosts(Log[1].result) # {}

(***************************************************************************)
(* C2.  Capacity bound: no group ever has more than 3 members; a Reconcile *)
(* that finds k < 3 members makes at most 3 - k successful Enable calls,   *)
(* and the Enable call that brings the count to 3 is the last thing its    *)
(* loop does.                                                              *)
(***************************************************************************)
CapacityBound ==
    /\ \A app \in Apps : MemberCount(app) <= MAX_MEMBERS
    /\ \A i \in ReconcileStarts :
        CountBefore(i) < MAX_MEMBERS =>
            /\ Cardinality(EnabledOk(i)) <= MAX_MEMBERS - CountBefore(i)
            /\ Cardinality(EnabledOk(i)) = MAX_MEMBERS - CountBefore(i) =>
                \E j \in EnabledOk(i) : \A m \in LoopEntries(i) : m <= j
    /\ Serviced => MemberCount(last.app) = CountBefore(1) + Cardinality(EnabledOk(1))

\* A Reconcile has filled its group to 3 and left a candidate unused.
CapacityBoundWitness ==
    /\ Serviced
    /\ CountBefore(1) < MAX_MEMBERS
    /\ MemberCount(last.app) = MAX_MEMBERS
    /\ FreeHosts(services) # {}

(***************************************************************************)
(* C3.  Idempotence at capacity: a connect or reconcile signal for a group *)
(* that has 3 or more members in the queried inventory makes no Enable     *)
(* call (it looks at no candidate), leaves the inventory as queried,       *)
(* reports success (no deferral) and publishes the connection data, so     *)
(* repeating the signal yields the same membership and the same outcome.   *)
(***************************************************************************)
IdempotentAtCapacity ==
    /\ \A i \in ReconcileStarts :
        CountBefore(i) >= MAX_MEMBERS => LoopEntries(i) = {}
    /\ (Serviced /\ CountBefore(1) >= MAX_MEMBERS) =>
        /\ services = Log[1].result
        /\ ~last.deferred
        /\ reldata[last.app] # {}

\* A signal was handled for a full group while a host was still free.
IdempotentAtCapacityWitness ==
    /\ Serviced
    /\ CountBefore(1) = MAX_MEMBERS
    /\ FreeHosts(Log[1].result) # {}
    /\ ~last.deferred

(***************************************************************************)
(* C4.  Best-effort enrollment: an Enable call (or an address resolution)  *)
(* that raises for a candidate does not end the Reconcile.  When the       *)
(* Reconcile ends with fewer than 3 members, it has gone through every     *)
(* candidate of the queried inventory (an Enable call for each one whose   *)
(* address resolved), and the count it ends with is the members it found   *)
(* plus the successful Enable calls.                                       *)
(***************************************************************************)
BestEffortEnrollment ==
    /\ \A i \in ReconcileStarts :
        (/\ CountBefore(i) < MAX_MEMBERS
         /\ CountBefore(i) + Cardinality(EnabledOk(i)) < MAX_MEMBERS) =>
            \A h \in FreeHosts(Log[i].result) :
                /\ \E j \in LoopEntries(i) : Log[j].host = h
                /\ (\A j \in LoopEntries(i) :
                        Log[j].host = h => Log[j].op # "get_public_address")
                   => \E j \in EnableCalls(i) : Log[j].host = h
    /\ Serviced => MemberCount(last.app) = CountBefore(1) + Cardinality(EnabledOk(1))

\* An Enable call raised, a later one succeeded, and the group is short of 3.
BestEffortEnrollmentWitness ==
    /\ Serviced
    /\ MemberCount(last.app) < MAX_MEMBERS
    /\ \E i, j \in EnableCalls(1) : i < j /\ ~Log[i].ok /\ Log[j].ok

(***************************************************************************)
(* C5.  Best-effort teardown: when a Disable call of a teardown fails,     *)
(* Disable is still called for every other member of the group; with 3    *)
(* members and exactly one failing Disable, 2 members are removed,         *)
(* wherever the failing host comes in the order of the calls.              *)
(***************************************************************************)
BestEffortTeardown ==
    (IsDepartHook /\ DisableFailed) =>
        LET members == nfs_services(Log[1].result, Log[1].arg)
            failed == {i \in DOMAIN Log : Log[i].op = "disable_nfs" /\ ~Log[i].ok}
        IN  /\ \A k \in DOMAIN members :
                \E i \in DOMAIN Log :
                    Log[i].op = "disable_nfs" /\ Log[i].host = members[k].location
            /\ (Len(members) = 3 /\ Cardinality(failed) = 1) => MemberCount(last.app) = 1

(***************************************************************************)
(* C6.  Cleanup despite teardown failure: when a Disable call              *)
(* of the teardown fails in a depart hook of the leader, remove_named_key  *)
(* is still called in that hook.                                           *)
(***************************************************************************)
CleanupDespiteFailure ==
    (IsDepartHook /\ last.is_leader /\ DisableFailed) =>
        \E i \in DOMAIN Log : Log[i].op = "remove_named_key"

(***************************************************************************)
(* C7.  Complete teardown: when no Disable call fails, the teardown of     *)
(* group g calls Disable once for each host that is a member of g in the   *)
(* queried inventory, for g, and for no other host; g has no member left.  *)
(***************************************************************************)
CompleteTeardown ==
    (IsDepartHook /\ last.is_leader /\ ~DisableFailed) =>
        LET members == nfs_services(Log[1].result, Log[1].arg)
        IN  /\ Log[1].arg = _cluster_id(last.app)
            /\ Hosts_of(members) = [k \in DOMAIN DisableCalls |-> DisableCalls[k].host]
            /\ \A k \in DOMAIN DisableCalls : DisableCalls[k].arg = Log[1].arg
            /\ MemberCount(last.app) = 0

\* A teardown removed several members while another group had members.
CompleteTeardownWitness ==
    /\ IsDepartHook
    /\ last.is_leader
    /\ ~DisableFailed
    /\ Len(DisableCalls) >= 2
    /\ \E k \in DOMAIN Log[1].result :
        IsNfs(Log[1].result[k]) /\ Log[1].result[k].group_id # Log[1].arg

(***************************************************************************)
(* C8.  Rebalance: a depart signal for group A, handled by the leader when *)
(* A has 3 members, the other related group B has 1 and no host is free,   *)
(* with no Disable and no Enable call failing, ends with A at 0 members    *)
(* and B at min(3, 1 + the freed hosts whose address resolved): B is       *)
(* reconciled in the same hook.                                            *)
(***************************************************************************)
RebalanceCase(b) ==
    /\ IsDepartHook
    /\ last.is_leader
    /\ ~last.raised
    /\ b # last.app
    /\ b \in relations
    /\ Len(nfs_services(Log[1].result, _cluster_id(last.app))) = 3
    /\ Len(nfs_services(Log[1].result, _cluster_id(b))) = 1
    /\ FreeHosts(Log[1].result) = {}
    /\ \A i \in DOMAIN Log : Log[i].op \in {"enable_nfs", "get_public_address"} => Log[i].ok

Rebalance_P5 ==
    \A b \in Apps :
        RebalanceCase(b) =>
            LET unresolved == {i \in DOMAIN Log : Log[i].op = "get_public_address"}
            IN  /\ MemberCount(last.app) = 0
                /\ MemberCount(b) = Min(MAX_MEMBERS, 1 + 3 - Cardinality(unresolved))
                /\ \E i \in ReconcileStarts : Log[i].arg = _cluster_id(b)

\* The depart of A has brought B from 1 member to 3.
Rebalance_P5Witness ==
    \E b \in Apps : RebalanceCase(b) /\ MemberCount(b) = 3

(***************************************************************************)
(* C9.  Leadership gating: a connect, reconcile or depart signal handled   *)
(* by a unit that is not the leader makes no collaborator call (no Enable, *)
(* no Disable, no key call), asks for no deferral, and leaves the          *)
(* inventory, the keys, the volumes and the published data as they were    *)
(* and the relations as they were.                                         *)
(***************************************************************************)
LeadershipGating ==
    [][(last'.kind # "none" /\ ~last'.is_leader) =>
            /\ last'.log = <<>>
            /\ ~last'.deferred
            /\ ~last'.raised
            /\ services' = services
            /\ keys' = keys
            /\ volumes' = volumes
            /\ reldata' = reldata
            /\ last'.kind = "depart" => relations' = relations]_vars

\* A unit that is not the leader handled the depart of a group with members.
LeadershipGatingWitness ==
    /\ IsDepartHook
    /\ ~last.is_leader
    /\ MemberCount(last.app) > 0
    /\ \E a \in Apps : reldata[a] # {}

(***************************************************************************)
(* C10.  Deferral on missing capacity: a connect or reconcile signal       *)
(* handled by the leader while the OSD count is 0 is deferred, makes no    *)
(* Enable call (no collaborator call at all) and leaves the inventory and  *)
(* every relation's published data as they were.                           *)
(***************************************************************************)
DeferralOnNoCapacity ==
    [][(last'.kind \in {"connect", "reconcile"} /\ last'.is_leader /\ last'.osd_count = <<0>>) =>
            /\ last'.deferred
            /\ last'.log = <<>>
            /\ services' = services
            /\ reldata' = reldata
            /\ keys' = keys]_vars

\* A signal was deferred for a relation with published data and a free host.
DeferralOnNoCapacityWitness ==
    /\ IsConnectHook
    /\ last.is_leader
    /\ last.osd_count = <<0>>
    /\ last.deferred
    /\ reldata[last.app] # {}
    /\ FreeHosts(services) # {}

(***************************************************************************)
(* C11.  Outcome classification on connect: a connect or reconcile signal  *)
(* handled by the leader with OSDs present clears the published data of    *)
(* the relation and defers the signal exactly when the Reconcile ends with *)
(* 0 members; with 1, 2 or 3 members it publishes the connection data and  *)
(* does not defer.                                                         *)
(***************************************************************************)
OutcomeClassification ==
    Serviced =>
        LET count == MemberCount(last.app)
        IN  /\ (reldata[last.app] = {} /\ last.deferred) <=> count = 0
            /\ last.deferred <=> count = 0
            /\ count >= 1 => reldata[last.app] = ConnectionData(last.app)

\* A Reconcile ended degraded, with an Enable call that raised: the data is
\* published and the signal is not deferred.
OutcomeClassificationWitness ==
    /\ Serviced
    /\ MemberCount(last.app) \in {1, 2}
    /\ \E i \in DOMAIN Log : Log[i].op = "enable_nfs" /\ ~Log[i].ok
    /\ reldata[last.app] = ConnectionData(last.app)
    /\ ~last.deferred

(***************************************************************************)
(* C12.  Reconcile result against a reference: with each host's address    *)
(* resolvability and Enable outcome fixed, a Reconcile of a group that     *)
(* starts with k < 3 members ends with min(3, k + N) members, N being the  *)
(* number of hosts that run no nfs service, resolve and whose Enable       *)
(* succeeds, whatever the iteration order of the candidates; it fails      *)
(* (data cleared, signal deferred) exactly when that number is 0.          *)
(***************************************************************************)
ReconcileReference ==
    (Serviced /\ CountBefore(1) < MAX_MEMBERS) =>
        LET expected == Min(MAX_MEMBERS, CountBefore(1) + Cardinality(GoodHosts(1)))
        IN  /\ MemberCount(last.app) = expected
            /\ last.deferred <=> expected = 0
            /\ reldata[last.app] = IF expected = 0 THEN {} ELSE ConnectionData(last.app)

\* 5 hosts, 3 of them in the other group, the 2 others good: the Reconcile
\* of a group without members ends with 2 members.
ReconcileReferenceWitness ==
    /\ Serviced
    /\ Cardinality(all_hosts(Log[1].result)) = 5
    /\ Len(all_nfs_services(Log[1].result)) = 3
    /\ CountBefore(1) = 0
    /\ Cardinality(GoodHosts(1)) = 2
    /\ MemberCount(last.app) = 2
    /\ ~last.deferred

(***************************************************************************)
(* C13.  All-or-nothing publication: after every hook, the published data  *)
(* of each relation is either empty or the complete record (fsid,          *)
(* mon-hosts, keyring, volume, client, cluster-id) with the cluster-id of  *)
(* that relation; a Reconcile that fails (0 members) leaves the data empty *)
(* and writes nothing (no key is asked for), one that ends with 1 or more  *)
(* members writes the complete record.                                     *)
(***************************************************************************)
AllOrNothingPublication ==
    /\ \A a \in DOMAIN reldata : reldata[a] = {} \/ reldata[a] = ConnectionData(a)
    /\ \A i \in ReconcileStarts :
        LET a == Log[i].arg
            asked == {j \in Segment(i) : Log[j].op = "get_named_key"}
        IN  IF MemberCount(a) = 0
            THEN reldata[a] = {} /\ asked = {}
            ELSE /\ reldata[a] = ConnectionData(a)
                 /\ Cardinality(asked) = 1
                 /\ \A j \in asked : Log[j].arg = "client." \o a

\* A Reconcile failed for one relation, whose data is empty, while the
\* other relation has the complete record.
AllOrNothingPublicationWitness ==
    /\ Serviced
    /\ MemberCount(last.app) = 0
    /\ reldata[last.app] = {}
    /\ \E a \in DOMAIN reldata : a # last.app /\ reldata[a] = ConnectionData(a)

(***************************************************************************)
(* C14 as claimed.  Bounded actuation: a Reconcile makes at most           *)
(* MAX_MEMBERS = 3 Enable calls, the calls that raise included.            *)
(***************************************************************************)
BoundedActuation ==
    \A i \in ReconcileStarts : Cardinality(EnableCalls(i)) <= MAX_MEMBERS

(***************************************************************************)
(* C14 as amended.  A Reconcile that starts with k members makes no Enable *)
(* call when k >= 3 and otherwise at most 3 - k Enable calls that succeed; *)
(* the calls that raise are not bounded by MAX_MEMBERS: there is at most   *)
(* one Enable call per host that runs no nfs service in the queried        *)
(* inventory, so at most (3 - k) plus the number of calls that raised.     *)
(***************************************************************************)
BoundedSuccessfulActuation ==
    \A i \in ReconcileStarts :
        LET k == CountBefore(i)
            calls == EnableCalls(i)
            raised == calls \ EnabledOk(i)
        IN  /\ k >= MAX_MEMBERS => calls = {}
            /\ k < MAX_MEMBERS => Cardinality(EnabledOk(i)) <= MAX_MEMBERS - k
            /\ \A j \in calls : Log[j].host \in FreeHosts(Log[i].result)
            /\ \A j1, j2 \in calls : Log[j1].host = Log[j2].host => j1 = j2
            /\ k < MAX_MEMBERS =>
                    Cardinality(calls) <= (MAX_MEMBERS - k) + Cardinality(raised)

\* A Reconcile made 4 Enable calls: one raised, 3 succeeded.
BoundedSuccessfulActuationWitness ==
    \E i \in ReconcileStarts :
        /\ Cardinality(EnableCalls(i)) = 4
        /\ Cardinality(EnabledOk(i)) = 3

(***************************************************************************)
(* C15 as claimed.  Total failure is never dropped: every Reconcile that   *)
(* ends with 0 members, in a connect or reconcile hook or in the rebalance *)
(* of a depart hook, clears the published data of its group and has the    *)
(* signal being handled deferred.                                          *)
(***************************************************************************)
TotalFailureDeferred ==
    \A i \in ReconcileStarts :
        MemberCount(Log[i].arg) = 0 =>
            reldata[Log[i].arg] = {} /\ last.deferred

(***************************************************************************)
(* C15 as amended.  Every Reconcile that ends with 0 members clears the    *)
(* published data of its group; the signal is deferred when the Reconcile  *)
(* ran for a connect or reconcile signal, and is not deferred when it ran  *)
(* in the rebalance of a depart signal, whose handler does not look at the *)
(* result: a depart signal is never deferred.                              *)
(***************************************************************************)
TotalFailureHandling ==
    /\ \A i \in ReconcileStarts :
        MemberCount(Log[i].arg) = 0 =>
            /\ reldata[Log[i].arg] = {}
            /\ last.deferred <=> IsConnectHook
    /\ IsDepartHook => ~last.deferred

\* The rebalance of a depart hook tried every free host for the other
\* relation and ended with 0 members; the depart signal is not deferred.
TotalFailureHandlingWitness ==
    /\ IsDepartHook
    /\ ~last.deferred
    /\ \E i \in ReconcileStarts :
        /\ MemberCount(Log[i].arg) = 0
        /\ LoopEntries(i) # {}
        /\ Log[i].arg \in relations

(***************************************************************************)
(* C16.  Rebalance coverage: after a depart hook of the leader for group A *)
(* whose teardown succeeded, every other relation that exists has been     *)
(* reconciled exactly once in the hook and A has not; every Reconcile      *)
(* queries the inventory anew (it sees A without members and the hosts the *)
(* earlier Reconciles of the hook enrolled as taken), so no freed host is  *)
(* enrolled into two groups and no group has more than 3 members, in       *)
(* whatever order the relations are visited.                               *)
(***************************************************************************)
RebalanceCoverage ==
    (IsDepartHook /\ last.is_leader /\ ~last.raised) =>
        /\ \A a \in relations \ {last.app} :
            Cardinality({i \in ReconcileStarts : Log[i].arg = _cluster_id(a)}) = 1
        /\ \A i \in ReconcileStarts :
            /\ Log[i].arg # _cluster_id(last.app)
            /\ \E a \in relations \ {last.app} : Log[i].arg = _cluster_id(a)
            /\ nfs_services(Log[i].result, _cluster_id(last.app)) = <<>>
            /\ \A i0 \in ReconcileStarts : \A j \in EnabledOk(i0) :
                i0 < i => Log[j].host \in exclude_hosts(Log[i].result)
        /\ \A j1, j2 \in DOMAIN Log :
            (Log[j1].op = "enable_nfs" /\ Log[j2].op = "enable_nfs"
                /\ Log[j1].host = Log[j2].host) => j1 = j2
        /\ \A h \in all_hosts(services) :
            Cardinality({k \in DOMAIN services :
                services[k].service = "nfs" /\ services[k].location = h}) <= 1
        /\ \A a \in DOMAIN reldata : MemberCount(a) <= MAX_MEMBERS

\* The depart of a group of 3 members freed hosts that went to two other
\* groups in the same hook.
RebalanceCoverageWitness ==
    /\ IsDepartHook
    /\ last.is_leader
    /\ Cardinality({j \in DOMAIN Log : Log[j].op = "disable_nfs" /\ Log[j].ok}) = 3
    /\ \E i1, i2 \in ReconcileStarts :
        /\ i1 # i2
        /\ EnabledOk(i1) # {}
        /\ EnabledOk(i2) # {}

(***************************************************************************)
(* C18.  Capacity precondition on every path: in no hook during which the  *)
(* storage cluster reports 0 OSDs, be it for a connect, a reconcile or a   *)
(* depart signal (the Reconciles of its rebalance), is an Enable call made *)
(* or connection data written to a relation.                               *)
(***************************************************************************)
CapacityPrecondition ==
    [][(last'.kind # "none" /\ last'.env.capacity = 0) =>
            /\ \A j \in DOMAIN last'.log : last'.log[j].op # "enable_nfs"
            /\ \A a \in DOMAIN reldata :
                reldata'[a] = reldata[a] \/ reldata'[a] = {}]_vars

(***************************************************************************)
(* C17.  Enable precondition: Enable is only called for a host that runs   *)
(* no nfs service of any group in the inventory the Reconcile queried, and *)
(* with the non-empty public address the peer relation gives for that      *)
(* host; a candidate whose address does not resolve gets no Enable call    *)
(* and does not count as a member, and the loop goes on to the candidates  *)
(* that remain.                                                            *)
(***************************************************************************)
EnablePrecondition ==
    \A i \in ReconcileStarts :
        LET skipped == {j \in Segment(i) : Log[j].op = "get_public_address" /\ Log[j].ok}
        IN  /\ \A j \in EnableCalls(i) :
                /\ Log[j].host \notin exclude_hosts(Log[i].result)
                /\ Log[j].addr # ""
                /\ last.env.peers.present
                /\ \E u \in last.env.peers.units :
                        u.hostname = Log[j].host /\ u.public_address = Log[j].addr
            /\ \A j \in skipped :
                /\ ~\E u \in last.env.peers.units : u.hostname = Log[j].host
                /\ ~\E m \in EnableCalls(i) : Log[m].host = Log[j].host
                /\ Log[j].host \notin Members(services, Log[i].arg)
            /\ MemberCount(Log[i].arg) = CountBefore(i) + Cardinality(EnabledOk(i))
            /\ (skipped # {} /\ MemberCount(Log[i].arg) < MAX_MEMBERS) =>
                    \A h \in FreeHosts(Log[i].result) :
                        \E j \in LoopEntries(i) : Log[j].host = h

\* A candidate whose address did not resolve was skipped and a candidate
\* after it was enabled.
EnablePreconditionWitness ==
    \E i \in ReconcileStarts : \E j, m \in Segment(i) :
        /\ Log[j].op = "get_public_address" /\ Log[j].ok
        /\ j < m
        /\ Log[m].op = "enable_nfs" /\ Log[m].ok

(***************************************************************************)
(* C20.  Frame of the two reconcilers.  A connect or reconcile hook makes  *)
(* no Disable call and leaves the members of every other group as they     *)
(* were, and no group loses a member in it.  The teardown of a depart hook *)
(* (the calls before remove_named_key) makes no Enable call, calls Disable *)
(* only for members of the departing group, none of them a member of       *)
(* another group, and the inventory it leaves has the members of every     *)
(* other group as they were.                                               *)
(***************************************************************************)
\* The calls of the teardown in the log of a depart hook of the leader.
TeardownCalls(log) ==
    {j \in DOMAIN log : \A m \in 1..j : log[m].op # "remove_named_key"
                                        /\ (m > 1 => log[m].op # "list_services")}

\* The inventory the teardown left: what the first Reconcile of the
\* rebalance queried, or the inventory at the end of the hook.
AfterTeardown(log, svcs) ==
    LET later == {j \in DOMAIN log : j > 1 /\ log[j].op = "list_services"}
    IN  IF later = {} THEN svcs
        ELSE log[CHOOSE j \in later : \A m \in later : j <= m].result

ReconcilerFrames ==
    [][/\ last'.kind \in {"connect", "reconcile"} =>
            /\ \A j \in DOMAIN last'.log : last'.log[j].op # "disable_nfs"
            /\ \A a \in DOMAIN reldata :
                /\ a # last'.app => Members(services', a) = Members(services, a)
                /\ Members(services, a) \subseteq Members(services', a)
       /\ (last'.kind = "depart" /\ last'.is_leader) =>
            /\ \A j \in TeardownCalls(last'.log) :
                /\ last'.log[j].op \in {"list_services", "disable_nfs"}
                /\ last'.log[j].op = "disable_nfs" =>
                    /\ last'.log[j].host \in Members(services, last'.app)
                    /\ \A a \in DOMAIN reldata \ {last'.app} :
                            last'.log[j].host \notin Members(services, a)
            /\ \A a \in DOMAIN reldata \ {last'.app} :
                Members(AfterTeardown(last'.log, services'), a) = Members(services, a)
      ]_vars

\* The teardown of a depart hook disabled a member while the other group
\* had members.
ReconcilerFramesWitness ==
    /\ IsDepartHook
    /\ last.is_leader
    /\ \E j \in DOMAIN Log : Log[j].op = "disable_nfs" /\ Log[j].ok
    /\ \E a \in DOMAIN reldata \ {last.app} : nfs_services(Log[1].result, a) # <<>>

(***************************************************************************)
(* C19.  Eventual provisioning under redelivery: with the deferred signal  *)
(* redelivered fairly and the unit leader, if from some hook on the        *)
(* storage cluster has OSDs in every hook, and every hook that looks for   *)
(* candidates finds a host that runs no nfs service, resolves and whose    *)
(* Enable succeeds, then a deferred connect or reconcile signal leads to a *)
(* hook after which the group has 1 or more members, its connection data   *)
(* is published and the signal is not deferred.  No redelivery removes a   *)
(* member of any group, nor enables a host that ran nfs already or enables *)
(* a host twice.                                                           *)
(***************************************************************************)
DeferredSignal(a) == IsConnectHook /\ last.app = a /\ last.deferred

Provisioned(a) ==
    /\ IsConnectHook /\ last.app = a /\ ~last.deferred
    /\ MemberCount(a) >= 1
    /\ reldata[a] = ConnectionData(a)

CapacityThere == last.kind # "none" => last.env.capacity > 0

GoodHostThere == (Serviced /\ CountBefore(1) < MAX_MEMBERS) => GoodHosts(1) # {}

RedeliveryIsSafe ==
    (IsConnectHook /\ last.deferred /\ last'.kind # "none") =>
        /\ \A a \in DOMAIN reldata : Members(services, a) \subseteq Members(services', a)
        /\ \A j \in DOMAIN last'.log : last'.log[j].op = "enable_nfs" =>
            /\ last'.log[j].host \notin exclude_hosts(services)
            /\ \A m \in DOMAIN last'.log :
                (last'.log[m].op = "enable_nfs" /\ last'.log[m].host = last'.log[j].host)
                    => m = j

EventualProvisioning ==
    /\ [][RedeliveryIsSafe]_vars
    /\ (<>[]CapacityThere /\ []GoodHostThere) =>
            \A a \in Apps : DeferredSignal(a) ~> Provisioned(a)

\* A connect signal was deferred for want of OSDs while a host is free.
EventualProvisioningWitness ==
    /\ DeferredSignal(last.app)
    /\ last.osd_count = <<0>>
    /\ MemberCount(last.app) = 0
    /\ FreeHosts(services) # {}

====
